---- MODULE Spec2Model ----
(***************************************************************************)
(* Model of the inbound-message -> lead / conversation / message           *)
(* reconciliation of the CRM (MessageHandler.handleIncomingMessage driven  *)
(* by the Baileys messages.upsert handler), of leads.create, of the        *)
(* campaign launch and of the Baileys session reconnect logic.             *)
(*                                                                         *)
(* Every `await db.<statement>` of the source is one atomic action: the    *)
(* relational engine executes one statement at a time and the JavaScript   *)
(* between two awaits runs without interruption.  Requests (tRPC           *)
(* mutations, event handlers) interleave at these points.                  *)
(***************************************************************************)
EXTENDS Integers, Sequences, FiniteSets, Bags, TLC

\* ---------------------------------------------------------------- bounds
NumUpserts == 2        \* messages.upsert handlers that can run concurrently
NumCreates == 1        \* leads.create requests that can run concurrently
NumSettingsCalls == 2  \* getOrCreateAppSettings calls that can run concurrently
NumLaunches == 2       \* campaigns.launch requests that can run concurrently
MaxCloses == 2         \* connection closes in one behaviour
MaxCalls == 8          \* scheduling.create and scheduling.update calls in one behaviour
MaxRequests == 2       \* inbound messages plus requests (leads.create, session calls) in one behaviour

Creates == 1..NumCreates
Launches == 1..NumLaunches
SettingsCalls == 1..NumSettingsCalls

\* ---------------------------------------------------------------- inputs
UserIds == {1, 2}                  \* whatsappNumberId of the receiving session
MsgIds == {"A", "B"}               \* message.key.id
NULL == 0                          \* SQL NULL / JS null, undefined

\* A jid is <local>@<server>; NoJid is a message without remoteJid.
NoJid == [local |-> "", server |-> ""]
Jid(local, server) == [local |-> local, server |-> server]
Msg(jid, fromMe, id) == [remoteJid |-> jid, fromMe |-> fromMe, id |-> id]
Messages ==
    { Msg(Jid("1", "s.whatsapp.net"), FALSE, "A"),
      Msg(Jid("1", "s.whatsapp.net"), FALSE, "B"),
      Msg(Jid("2", "s.whatsapp.net"), FALSE, "A"),
      Msg(Jid("1", "s.whatsapp.net"), TRUE, "A"),
      Msg(Jid("1-77", "g.us"), FALSE, "A"),
      Msg(Jid("status", "broadcast"), FALSE, "A"),
      Msg(NoJid, FALSE, "A") }
Jids == {m.remoteJid : m \in Messages}

\* phone strings a client may send to leads.create
CreatePhones == {"+1", "2"}
CreateStages == {NULL, 1}
CreateInputs == [phone : CreatePhones, pipelineStageId : CreateStages]

\* pipelines / pipeline_stages contents (not written by the modelled code)
PipelineConfigs ==
    { [pipelines |-> {},
       stages    |-> {}],
      [pipelines |-> {[id |-> 1, isDefault |-> TRUE]},
       stages    |-> {[id |-> 1, pipelineId |-> 1, order |-> 2],
                      [id |-> 2, pipelineId |-> 1, order |-> 1]}],
      [pipelines |-> {[id |-> 1, isDefault |-> FALSE], [id |-> 2, isDefault |-> TRUE]},
       stages    |-> {[id |-> 1, pipelineId |-> 1, order |-> 0]}] }

VARIABLES
    leads,            \* table leads: rows [id, phone, pipelineStageId, kanbanOrder, source]
    conversations,    \* table conversations: rows [id, leadId, whatsappNumberId, channel, unreadCount]
    chatMessages,     \* table chat_messages: a bag of rows [conversationId, whatsappMessageId,
                      \* direction, status] (the primary key is read by no modelled statement)
    pipelines,        \* table pipelines: rows [id, isDefault]
    pipelineStages,   \* table pipeline_stages: rows [id, pipelineId, order]
    handlers,         \* the running messages.upsert handlers, each inside a call of
                      \* handleIncomingMessage: a bag of [pc, userId, threw, msg, loc]
    requests,         \* history: inbound messages plus requests served so far
    errLog,           \* history: console.error calls of the handler's catch block
    handed,           \* history: how often a (userId, phone, msgId) passed the handler's filters
    cpc,              \* position of each leads.create request
    cin,              \* input of each leads.create request
    cloc,             \* locals of leads.create
    cres,             \* result of each leads.create request
    campaigns,        \* table campaigns: rows [id, status, totalRecipients, stageFilter]
    campaignRecipients, \* table campaign_recipients: a bag of rows [campaignId, leadId, status]
    lpc,              \* position of each campaigns.launch request
    lloc,             \* locals of campaigns.launch
    lres,             \* result of each campaigns.launch request
    connections,      \* BaileysService: the connections map, userId -> [status, socket, qr]
    sockets,          \* live sockets made by initializeSession: [id, userId]
    socketsMade,      \* history: sockets created so far (the next socket's identity)
    pendingInit,      \* initializeSession calls that have not yet created their socket, per user
    closes,           \* history: number of connection closes so far
    lastClose,        \* history: [userId, reason] of the latest close
    appSettings,      \* table app_settings: rows [id, singleton]
    gpc,              \* position of each getOrCreateAppSettings call
    gres,             \* what each getOrCreateAppSettings call returned last
    epc,              \* position of the startup ensureAppSettings
    rbac,             \* the last effective-role computation: [fn, baseRole, customRole,
                      \* matrix, result]
    userRows,         \* users rows: [role, customRole] by user id
    ucr,               \* the team.updateCustomRole call: [pc, userId, callerRole, customRole, value, res]
    processEnv,       \* process.env of the server process: [NODE_ENV, JWT_SECRET, OWNER_OPEN_ID, DATA_ENCRYPTION_KEY]
    spc,              \* position of startServer
    httpServer,       \* createServer(app) was called
    listening,         \* server.listen was called
    san,               \* the last two settings.get outputs compared: [fn, rowA, rowB, outA, outB]
    mpc,              \* position of the chat.markAsRead call
    mconv,             \* its input.conversationId
    afterDisconnect,  \* history: disconnect(userId) returned and initializeSession was not called since
    afterLogout,       \* history: a socket of the user closed logged-out and initializeSession was not called since
    appointments,     \* table appointments: rows [id, appointmentDate, appointmentTime]
    apc,              \* position of the scheduling.create call
    ain,              \* its input
    aloc,             \* its locals: [maxPerSlot, existingCount]
    ares,             \* what the last scheduling call returned
    acalls            \* number of scheduling calls made

dbVars == <<leads, conversations, chatMessages, pipelines, pipelineStages>>
upsertVars == <<handlers, errLog, handed>>
createVars == <<cpc, cin, cloc, cres>>
launchVars == <<campaigns, campaignRecipients, lpc, lloc, lres>>
connVars == <<connections, sockets, socketsMade, pendingInit, closes, lastClose>>
settingsVars == <<appSettings, gpc, gres, epc>>
roleVars == <<rbac>>
teamVars == <<userRows, ucr>>
envVars == <<processEnv, spc, httpServer, listening>>
sanVars == <<san>>
markVars == <<mpc, mconv>>
sessVars == <<afterDisconnect, afterLogout>>
schedVars == <<appointments, apc, ain, aloc, ares, acalls>>
otherVars == <<settingsVars, roleVars, teamVars, envVars, sanVars, markVars, sessVars, schedVars>>
vars == <<requests, leads, conversations, chatMessages, pipelines, pipelineStages,
          handlers, errLog, handed, cpc, cin, cloc, cres,
          campaigns, campaignRecipients, lpc, lloc, lres,
          connections, sockets, socketsMade, pendingInit, closes, lastClose,
          appSettings, gpc, gres, epc, rbac,
          userRows, ucr,
          processEnv, spc, httpServer, listening,
          san,
          mpc, mconv,
          afterDisconnect, afterLogout,
          appointments, apc, ain, aloc, ares, acalls>>

\* ------------------------------------------------------------ pure helpers
Max(S) == CHOOSE x \in S : \A y \in S : y <= x

\* jid.includes('@g.us')
IsGroupJid(jid) == jid.server = "g.us"
\* jid.includes('status@broadcast')
IsStatusJid(jid) == jid.local = "status" /\ jid.server = "broadcast"
\* the handler's early return on the jid
IgnoredJid(jid) == jid = NoJid \/ IsGroupJid(jid) \/ IsStatusJid(jid)
\* '+' + jid.split('@')[0]
PhoneOfJid(jid) == "+" \o jid.local

HandlerPhones == {PhoneOfJid(j) : j \in {k \in Jids : ~IgnoredJid(k)}}
HandKeys == UserIds \X HandlerPhones \X MsgIds

\* (mutant) the leads table without its unique key on phone
LeadPhoneTaken_NoUniqueKey(phone) == FALSE

\* leads has UNIQUE KEY uq_leads_phone (phone): an insert of a phone that is
\* already there fails with ER_DUP_ENTRY
LeadPhoneTaken(phone) == \E l \in leads : l.phone = phone

\* AUTO_INCREMENT primary keys
NextLeadId == Cardinality(leads) + 1
NextConversationId == Cardinality(conversations) + 1

\* select max(kanbanOrder) from leads where pipelineStageId = stageId; (max ?? 0) + 1
NextKanbanOrder(stageId) ==
    LET orders == {l.kanbanOrder : l \in {k \in leads : k.pipelineStageId = stageId}}
    IN  (IF orders = {} THEN 0 ELSE Max(orders)) + 1

\* select * from pipelines where isDefault = true limit 1
DefaultPipelines == {p \in pipelines : p.isDefault}
\* select * from pipeline_stages where pipelineId = pid order by order asc limit 1
FirstStages(pid) ==
    LET ss == {s \in pipelineStages : s.pipelineId = pid}
    IN  {s \in ss : \A t \in ss : s.order <= t.order}

\* select * from conversations where leadId = .. and whatsappNumberId = .. and channel = 'whatsapp'
ConversationsOf(leadId, userId) ==
    {c \in conversations : c.leadId = leadId /\ c.whatsappNumberId = userId
                           /\ c.channel = "whatsapp"}

NoLocals == [phone |-> "", leadId |-> NULL, stageId |-> NULL,
             nextOrder |-> 0, convId |-> NULL, unread |-> 0]
NoMessage == [remoteJid |-> NoJid, fromMe |-> FALSE, id |-> ""]
NoCreateLocals == [stageId |-> NULL, nextOrder |-> 0]
NoInput == [phone |-> "", pipelineStageId |-> NULL]
NoResult == [id |-> NULL, success |-> FALSE, existed |-> FALSE, error |-> FALSE]

NoLaunchLocals == [campaignId |-> NULL, audience |-> {}, todo |-> {}, inserted |-> 0]
NoLaunchResult == [success |-> FALSE, recipientsCount |-> 0, inserted |-> 0,
                   alreadyLaunched |-> FALSE, error |-> FALSE]

InitLaunches ==
    /\ lpc = [k \in Launches |-> "idle"]
    /\ lloc = [k \in Launches |-> NoLaunchLocals]
    /\ lres = [k \in Launches |-> NoLaunchResult]

\* an absent entry of the connections map / an entry without socket
NoSocket == 0
NoConnection == [status |-> "absent", socket |-> NoSocket, qr |-> FALSE]

\* const connections: Map<number, ConnectionState> = new Map()
InitConnections ==
    /\ connections = [u \in UserIds |-> NoConnection]
    /\ sockets = {}
    /\ socketsMade = 0
    /\ pendingInit = [u \in UserIds |-> 0]
    /\ closes = 0
    /\ lastClose = [userId |-> NULL, reason |-> ""]
    /\ afterDisconnect = [u \in UserIds |-> FALSE]
    /\ afterLogout = [u \in UserIds |-> FALSE]

\* ------------------------------------------------------------ strings
\* A string is a sequence of pieces: words and the whitespace piece Sp.
\* "" is <<>>; null and undefined are the one-piece value Null.
Sp == " "
Null == <<"null">>
Str(w) == <<w>>
Padded(w) == <<Sp, w, Sp>>

\* String.prototype.trim
RECURSIVE TrimLeft(_)
TrimLeft(str) == IF str # <<>> /\ Head(str) = Sp THEN TrimLeft(Tail(str)) ELSE str
RECURSIVE TrimRight(_)
TrimRight(str) ==
    IF str # <<>> /\ str[Len(str)] = Sp THEN TrimRight(SubSeq(str, 1, Len(str) - 1)) ELSE str
Trim(str) == TrimRight(TrimLeft(str))

\* !x for a string | null | undefined
Falsy(x) == x = Null \/ x = <<>>

\* ------------------------------------------------------------ roles (rbac.ts)
\* export type Role = "owner" | "admin" | "supervisor" | "agent" | "viewer"
Roles == {Str("owner"), Str("admin"), Str("supervisor"), Str("agent"), Str("viewer")}

\* const BUILTIN_RANK = { viewer: 0, agent: 1, supervisor: 2, admin: 3, owner: 4 }
BUILTIN_RANK ==
    [r \in Roles |-> CASE r = Str("viewer") -> 0 [] r = Str("agent") -> 1
                       [] r = Str("supervisor") -> 2 [] r = Str("admin") -> 3
                       [] r = Str("owner") -> 4]

\* A permissions matrix is a plain object; the model keeps its own keys (the
\* values are arrays, which are truthy).  matrix[key] also finds what every
\* object inherits from Object.prototype.
ObjectPrototypeKeys == {Str("constructor")}
HasOwnProperty(matrix, key) == key \in matrix
LookupTruthy(matrix, key) == key \in matrix \/ key \in ObjectPrototypeKeys

\* (mutant) the owner guard is missing
computeEffectiveRole_NoOwnerGuard(baseRole, customRole, permissionsMatrix) ==
    LET base == Trim(IF Falsy(baseRole) THEN Str("agent") ELSE baseRole)
        custom == Trim(IF Falsy(customRole) THEN <<>> ELSE customRole)
        baseRank == IF base \in Roles THEN BUILTIN_RANK[base] ELSE 0
    IN  IF custom = <<>> THEN base
        ELSE IF ~HasOwnProperty(permissionsMatrix, custom) THEN base
        ELSE IF custom = Str("owner") THEN base
        ELSE IF custom \in Roles /\ BUILTIN_RANK[custom] > baseRank THEN base
        ELSE IF custom \notin Roles /\ base # Str("admin") THEN base
        ELSE custom

\* computeEffectiveRole({ baseRole, customRole, permissionsMatrix })
computeEffectiveRole(baseRole, customRole, permissionsMatrix) ==
    LET base == Trim(IF Falsy(baseRole) THEN Str("agent") ELSE baseRole)
        custom == Trim(IF Falsy(customRole) THEN <<>> ELSE customRole)
        baseRank == IF base \in Roles THEN BUILTIN_RANK[base] ELSE 0
    IN  IF base = Str("owner") THEN Str("owner")
        ELSE IF custom = <<>> THEN base
        ELSE IF ~HasOwnProperty(permissionsMatrix, custom) THEN base
        ELSE IF custom = Str("owner") THEN base
        ELSE IF custom \in Roles /\ BUILTIN_RANK[custom] > baseRank THEN base
        ELSE IF custom \notin Roles /\ base # Str("admin") THEN base
        ELSE custom

\* const RESERVED_SYSTEM_ROLES = new Set(["owner", "admin", "supervisor", "agent", "viewer"])
RESERVED_SYSTEM_ROLES == Roles

\* validateCustomRole(customRole, permissionsMatrix).valid
validateCustomRole(customRole, permissionsMatrix) ==
    IF Falsy(customRole) THEN TRUE
    ELSE LET trimmed == Trim(customRole)
         IN  IF trimmed \in RESERVED_SYSTEM_ROLES THEN FALSE
             ELSE LookupTruthy(permissionsMatrix, trimmed)

\* getEffectiveRole(baseRole, customRole, permissionsMatrix)
getEffectiveRole(baseRole, customRole, permissionsMatrix) ==
    IF baseRole = Str("owner") THEN Str("owner")
    ELSE IF Falsy(customRole) THEN baseRole
    ELSE IF ~validateCustomRole(customRole, permissionsMatrix) THEN baseRole
    ELSE customRole

\* users.role is the enum Role; ctx.user.role may be missing
BaseRoles == Roles \cup {Null}
\* users.customRole is a varchar(64)
CustomRoles ==
    {Null, <<>>, <<Sp>>, Str("owner"), Padded("owner"), Str("admin"), Str("viewer"),
     Str("sales"), Padded("sales"), Str("constructor")}
\* appSettings.permissionsMatrix: any set of keys
MatrixKeys == {Str("owner"), Str("admin"), Str("viewer"), Str("sales")}
Matrices == SUBSET MatrixKeys

\* ------------------------------------------------------------ sanitizeAppSettings
\* An object is a function from its keys to values; null is NullObj.
NullObj == [null |-> "null"]
\* const { key, ...rest } = obj
Without(obj, key) == [k \in DOMAIN obj \ {key} |-> obj[k]]
\* { ...obj, key: value }
With(obj, key, value) == [k \in DOMAIN obj \cup {key} |-> IF k = key THEN value ELSE obj[k]]
\* settings[config]?.[key] is truthy
OptTruthy(settings, config, key) ==
    /\ config \in DOMAIN settings
    /\ settings[config] # NullObj
    /\ key \in DOMAIN settings[config]
    /\ settings[config][key] # ""

\* if (sanitized.c?.key) { const { key, ...rest } = sanitized.c; sanitized.c = { ...rest, flag: true } }
RemoveSecret(sanitized, config, key, flag) ==
    IF OptTruthy(sanitized, config, key)
    THEN With(sanitized, config, With(Without(sanitized[config], key), flag, "true"))
    ELSE sanitized

\* (mutant) the SMTP password is left in place
sanitizeAppSettings_KeepSmtpPass(settings) ==
    IF settings = NullObj THEN NullObj
    ELSE LET s1 == settings
             s2 == RemoveSecret(s1, "aiConfig", "apiKey", "hasApiKey")
             s3 == RemoveSecret(s2, "mapsConfig", "apiKey", "hasApiKey")
         IN  RemoveSecret(s3, "storageConfig", "secretKey", "hasSecretKey")

\* sanitizeAppSettings(settings) of security-helpers.ts
sanitizeAppSettings(settings) ==
    IF settings = NullObj THEN NullObj
    ELSE LET s1 == RemoveSecret(settings, "smtpConfig", "pass", "hasPassword")
             s2 == RemoveSecret(s1, "aiConfig", "apiKey", "hasApiKey")
             s3 == RemoveSecret(s2, "mapsConfig", "apiKey", "hasApiKey")
         IN  RemoveSecret(s3, "storageConfig", "secretKey", "hasSecretKey")

\* if (sanitized.c) sanitized.c = { ...sanitized.c, key: MASK }
MASK == "********"
MaskSecret(sanitized, config, key) ==
    IF config \in DOMAIN sanitized /\ sanitized[config] # NullObj
    THEN With(sanitized, config, With(sanitized[config], key, MASK))
    ELSE sanitized

\* sanitizeAppSettings(settings), the masking version
sanitizeAppSettingsMask(settings) ==
    IF settings = NullObj THEN NullObj
    ELSE LET s1 == MaskSecret(settings, "smtpConfig", "pass")
             s2 == MaskSecret(s1, "aiConfig", "apiKey")
             s3 == MaskSecret(s2, "mapsConfig", "apiKey")
         IN  MaskSecret(s3, "storageConfig", "secretKey")

\* the secret-bearing columns of app_settings and the key of each secret
ConfigNames == {"smtpConfig", "aiConfig", "mapsConfig", "storageConfig"}
SecretKey == [c \in ConfigNames |->
                 CASE c = "smtpConfig" -> "pass" [] c = "aiConfig" -> "apiKey"
                   [] c = "mapsConfig" -> "apiKey" [] c = "storageConfig" -> "secretKey"]
Secrets == {"s1", "s2"}
\* what one config column can hold: null, an object without the secret, with
\* an empty secret, or with a secret
ConfigValues(c) ==
    {NullObj, [name |-> c]} \cup {With([name |-> c], SecretKey[c], v) : v \in Secrets \cup {""}}
\* two values of a column that differ at most in a non-empty secret
ConfigPairs(c) ==
    {p \in ConfigValues(c) \X ConfigValues(c) :
        \/ p[1] = p[2]
        \/ /\ OptTruthy([x \in {c} |-> p[1]], c, SecretKey[c])
           /\ OptTruthy([x \in {c} |-> p[2]], c, SecretKey[c])}
SettingsRow(smtp, ai, maps, storage) ==
    [id |-> [name |-> "1"], companyName |-> [name |-> "Imagine Lab CRM"],
     smtpConfig |-> smtp, aiConfig |-> ai, mapsConfig |-> maps, storageConfig |-> storage]
\* every value found one level below a config column of an output
Leaves(out) ==
    UNION {IF out[c] = NullObj THEN {} ELSE {out[c][k] : k \in DOMAIN out[c]} :
              c \in ConfigNames \cap DOMAIN out}
NoSan == [fn |-> "none", rowA |-> NullObj, rowB |-> NullObj, outA |-> NullObj, outB |-> NullObj]

\* ------------------------------------------------------------ appointments
\* an instant is a day and an hour of that day, in the server's time zone
Dates == {[day |-> 1, hour |-> 0], [day |-> 1, hour |-> 15]}
Times == {"09:00", "10:00"}
\* normalizedDate.setHours(0, 0, 0, 0)
SetHoursZero(date) == [date EXCEPT !.hour = 0]
\* (settingsRows[0] as any)?.scheduling?.maxPerSlot ?? 6, with the seeded settings
MaxPerSlotDefault == 6
NoDate == [day |-> 0, hour |-> 0]
NoAppointmentInput == [appointmentDate |-> NoDate, appointmentTime |-> ""]
NoAppointmentLocals == [maxPerSlot |-> 0, existingCount |-> 0]
\* the rows of one slot
InSlot(date, time) ==
    {a \in appointments : a.appointmentDate = date /\ a.appointmentTime = time}

\* ------------------------------------------------------------ environment (env.ts)
\* a variable of process.env is a string or is not set
Unset == "(unset)"
Undefined == "(undefined)"
EnvValues == {Unset, "", "dev-secret-change-me", "CHANGE_ME", "dev-owner", "s3cure"}
NodeEnvs == {"production", "development"}
NoEnv == [NODE_ENV |-> Unset, JWT_SECRET |-> Unset, OWNER_OPEN_ID |-> Unset,
          DATA_ENCRYPTION_KEY |-> Unset]

\* a ?? b
Coalesce(a, b) == IF a = Unset THEN b ELSE a

\* export const ENV = { appId, cookieSecret, ownerOpenId, dataEncryptionKey, oAuthServerUrl }
ENV(env) ==
    [appId |-> "imagine-crm",
     cookieSecret |-> Coalesce(env.JWT_SECRET, ""),
     ownerOpenId |-> Coalesce(env.OWNER_OPEN_ID, ""),
     dataEncryptionKey |-> Coalesce(env.DATA_ENCRYPTION_KEY, ""),
     oAuthServerUrl |-> ""]

\* obj.name: a property the object does not have reads as undefined
Prop(obj, name) == IF name \in DOMAIN obj THEN obj[name] ELSE Undefined
Truthy(x) == x \notin {Undefined, Unset, ""}

INSECURE_DEFAULTS == {"dev-secret-change-me", "CHANGE_ME", "dev-owner", ""}

\* validateProductionSecrets(): TRUE when it throws
validateProductionSecrets(env) ==
    IF ~Truthy(Prop(ENV(env), "isProduction")) THEN FALSE
    ELSE \/ Prop(ENV(env), "cookieSecret") \in INSECURE_DEFAULTS
         \/ /\ Truthy(Prop(ENV(env), "dataEncryptionKey"))
            /\ Prop(ENV(env), "dataEncryptionKey") \in INSECURE_DEFAULTS
         \/ Prop(ENV(env), "ownerOpenId") \in INSECURE_DEFAULTS

\* the permissions matrix seeded at startup, and what app_settings can hold when
\* team.updateCustomRole reads it: no row ({}), the seeded matrix, or one edited
\* by settings.updatePermissionsMatrix
DefaultMatrix == Roles
StoredMatrices == {{}, DefaultMatrix, DefaultMatrix \cup {Str("sales")}}
\* permissionProcedure("users.manage"): the roles that hold users.manage
CallerRoles == {Str("owner"), Str("admin")}

NoUcr == [pc |-> "idle", userId |-> 1, callerRole |-> Str("owner"), customRole |-> Null,
          value |-> Null, res |-> "none"]

NoRbac == [fn |-> "none", baseRole |-> Null, customRole |-> Null, matrix |-> {},
           result |-> Null]

\* ------------------------------------------------------------------ Init
\* The database at start: empty, or holding what one inbound message "A"
\* from +1 to number 1 leaves behind (a lead, its conversation, one row).
SeedLead(stageId) ==
    [id |-> 1, phone |-> "+1", pipelineStageId |-> stageId,
     kanbanOrder |-> IF stageId = NULL THEN 0 ELSE 1, source |-> "whatsapp_inbound"]
SeedConversation ==
    [id |-> 1, leadId |-> 1, whatsappNumberId |-> 1, channel |-> "whatsapp",
     unreadCount |-> 1]
SeedMessage ==
    [conversationId |-> 1, whatsappMessageId |-> "A", direction |-> "inbound",
     status |-> "delivered"]

InitDb ==
    /\ \E cfg \in PipelineConfigs :
          /\ pipelines = cfg.pipelines /\ pipelineStages = cfg.stages
          /\ \/ /\ leads = {}
                /\ conversations = {}
                /\ chatMessages = EmptyBag
                /\ handed = [k \in HandKeys |-> 0]
             \/ \E stageId \in
                    IF \E p \in {q \in cfg.pipelines : q.isDefault} :
                          \E st \in cfg.stages : st.pipelineId = p.id
                       THEN {st.id : st \in {t \in cfg.stages :
                                \A t2 \in cfg.stages : t.order <= t2.order}}
                       ELSE {NULL} :
                /\ leads = {SeedLead(stageId)}
                /\ conversations = {SeedConversation}
                /\ chatMessages = SetToBag({SeedMessage})
                /\ handed = [k \in HandKeys |->
                                IF k = <<1, "+1", "A">> THEN 1 ELSE 0]

\* the server starts with an empty app_settings table and with
\* ensureAppSettings still to run (index.ts 385-387: after startServer)
InitSettings ==
    /\ appSettings = {}
    /\ gpc = [g \in SettingsCalls |-> "idle"]
    /\ gres = [g \in SettingsCalls |-> "none"]
    /\ epc = "select"

InitOther ==
    /\ InitSettings
    /\ rbac = NoRbac
    /\ userRows = [u \in UserIds |-> [role |-> IF u = 1 THEN Str("owner") ELSE Str("agent"),
                                      customRole |-> Null]]
    /\ ucr = NoUcr
    /\ san = NoSan
    /\ appointments = {}
    /\ apc = "idle"
    /\ ain = NoAppointmentInput
    /\ aloc = NoAppointmentLocals
    /\ ares = "none"
    /\ acalls = 0
    /\ mpc = "idle"
    /\ mconv = NULL
    /\ processEnv = NoEnv
    /\ spc = "notStarted"
    /\ httpServer = FALSE
    /\ listening = FALSE

Init ==
    /\ InitDb
    /\ handlers = EmptyBag
    /\ errLog = 0
    /\ requests = 0
    /\ cpc = [c \in Creates |-> "idle"]
    /\ cin = [c \in Creates |-> NoInput]
    /\ cloc = [c \in Creates |-> NoCreateLocals]
    /\ cres = [c \in Creates |-> NoResult]
    /\ campaigns = {}
    /\ campaignRecipients = EmptyBag
    /\ InitLaunches
    /\ InitConnections
    /\ InitOther

\* ------------------------------------------- messages.upsert (baileys.ts)
\* A message reaches the try block of handleIncomingMessage when the event is
\* of type 'notify', the message is not fromMe, getDb() returned a connection
\* (dbOk) and the jid passes the group / status / empty filters.
Accepted(type, msg, dbOk) ==
    type = "notify" /\ ~msg.fromMe /\ dbOk /\ ~IgnoredJid(msg.remoteJid)

AcceptedMessages == {m \in Messages : Accepted("notify", m, TRUE)}

\* A running call of handleIncomingMessage at its first statement: the userId
\* of its upsert event, the message, the position and the locals.  threw is
\* history: an earlier call of the same event has thrown.
Handler(userId, threw, msg) ==
    [pc |-> "selectLead", userId |-> userId, threw |-> threw, msg |-> msg,
     loc |-> [NoLocals EXCEPT !.phone = PhoneOfJid(msg.remoteJid)]]

\* the upsert handlers are anonymous closures: the running ones form a bag
Running == BagToSet(handlers)
\* the handler h goes on as h2 / its upsert handler completes
Becomes(h, h2) == handlers' = (handlers (-) SetToBag({h})) (+) SetToBag({h2})
Completes(h) == handlers' = handlers (-) SetToBag({h})

\* await MessageHandler.handleIncomingMessage(userId, msg), up to the first
\* statement of the try block: the filters and the phone extraction
StartHandler(userId, msg) ==
    /\ requests < MaxRequests
    /\ requests' = requests + 1
    /\ handed' = [handed EXCEPT ![<<userId, PhoneOfJid(msg.remoteJid), msg.id>>] = @ + 1]

\* sock.ev.on('messages.upsert', async (m) => { if (m.type === 'notify')
\*     for (const msg of m.messages) { if (!msg.key.fromMe) { await import(..);
\*         await MessageHandler.handleIncomingMessage(userId, msg) } } })
\* msg is the first message of the event that reaches the try block; an event
\* without one changes nothing.
OnMessagesUpsert(userId, type, msg, dbOk) ==
    /\ BagCardinality(handlers) < NumUpserts
    /\ IF Accepted(type, msg, dbOk)
          THEN /\ StartHandler(userId, msg)
               /\ handlers' = handlers (+) SetToBag({Handler(userId, FALSE, msg)})
          ELSE /\ requests < MaxRequests
               /\ requests' = requests + 1
               /\ UNCHANGED <<handlers, handed>>
    /\ UNCHANGED <<dbVars, errLog, createVars, launchVars, connVars, otherVars>>

\* --------------------------- MessageHandler.handleIncomingMessage (part_008)
\* The handler returns into the for loop of the upsert handler, which goes on
\* with nxt, the next message of the event that reaches the try block, or
\* completes when there is none (nxt = NoMessage).
HandlerReturn(h, nxt, threw) ==
    IF nxt = NoMessage
       THEN Completes(h) /\ UNCHANGED <<requests, handed>>
       ELSE StartHandler(h.userId, nxt) /\ Becomes(h, Handler(h.userId, threw, nxt))

NextMessages == AcceptedMessages \cup {NoMessage}

\* (mutant) the handler lets the error escape: handleIncomingMessage rejects,
\* and with it the async messages.upsert handler, whose for loop is abandoned
CatchError_Rethrow(h, nxt) ==
    /\ Becomes(h, [h EXCEPT !.pc = "rejected", !.threw = TRUE])
    /\ UNCHANGED <<errLog, requests, handed>>

\* catch (error) { console.error("Error handling incoming message:", error); }
CatchError(h, nxt) ==
    /\ HandlerReturn(h, nxt, TRUE)
    /\ errLog' = errLog + 1

\* const existingLead = await db.select().from(leads).where(eq(leads.phone, phoneNumber)).limit(1)
\* found: leadId = existingLead[0].id, then update leads set lastContactedAt
\* (a column no modelled statement reads, so the update is not a step of its own)
SelectLead(h) ==
    /\ h.pc = "selectLead"
    /\ LET found == {l \in leads : l.phone = h.loc.phone}
       IN  IF found # {}
              THEN \E l \in found :
                      Becomes(h, [h EXCEPT !.loc.leadId = l.id, !.pc = "selectConversation"])
              ELSE Becomes(h, [h EXCEPT !.pc = "selectStage"])
    /\ UNCHANGED <<requests, dbVars, errLog, handed, createVars, launchVars, connVars, otherVars>>

\* const defaultPipeline = await db.select().from(pipelines).where(isDefault).limit(1)
\* const firstStage = await db.select().from(pipelineStages)...orderBy(asc(order)).limit(1)
\* (two reads of tables that no modelled statement writes: one step)
SelectFirstStage(h) ==
    /\ h.pc = "selectStage"
    /\ IF \E p \in DefaultPipelines : FirstStages(p.id) # {}
          THEN \E p \in DefaultPipelines : \E s \in FirstStages(p.id) :
                  Becomes(h, [h EXCEPT !.loc.stageId = s.id, !.pc = "selectMaxOrder"])
          ELSE Becomes(h, [h EXCEPT !.pc = "insertLead"])
    /\ UNCHANGED <<requests, dbVars, errLog, handed, createVars, launchVars, connVars, otherVars>>

\* (mutant) the handler stores the largest order instead of the next one
SelectMaxOrder_NoIncrement(h) ==
    /\ h.pc = "selectMaxOrder"
    /\ Becomes(h, [h EXCEPT !.loc.nextOrder = NextKanbanOrder(h.loc.stageId) - 1,
                            !.pc = "insertLead"])
    /\ UNCHANGED <<requests, dbVars, errLog, handed, createVars, launchVars, connVars, otherVars>>

\* const maxRows = await db.select({ max: max(kanbanOrder) })...; nextOrder = (max ?? 0) + 1
SelectMaxOrder(h) ==
    /\ h.pc = "selectMaxOrder"
    /\ Becomes(h, [h EXCEPT !.loc.nextOrder = NextKanbanOrder(h.loc.stageId),
                            !.pc = "insertLead"])
    /\ UNCHANGED <<requests, dbVars, errLog, handed, createVars, launchVars, connVars, otherVars>>

\* const [newLead] = await db.insert(leads).values({...}).$returningId()
\* a duplicate phone throws; the handler's catch logs it and returns
InsertLead(h, nxt) ==
    /\ h.pc = "insertLead"
    /\ IF LeadPhoneTaken(h.loc.phone)
          THEN CatchError(h, nxt) /\ UNCHANGED leads
          ELSE /\ leads' = leads \cup
                     {[id |-> NextLeadId, phone |-> h.loc.phone,
                       pipelineStageId |-> h.loc.stageId,
                       kanbanOrder |-> h.loc.nextOrder,
                       source |-> "whatsapp_inbound"]}
               /\ Becomes(h, [h EXCEPT !.loc.leadId = NextLeadId,
                                       !.pc = "selectConversation"])
               /\ UNCHANGED <<errLog, requests, handed>>
    /\ UNCHANGED <<conversations, chatMessages, pipelines, pipelineStages,
                   createVars, launchVars, connVars, otherVars>>

\* const existingConv = await db.select().from(conversations).where(and(...)).limit(1)
SelectConversation(h) ==
    /\ h.pc = "selectConversation"
    /\ LET found == ConversationsOf(h.loc.leadId, h.userId)
       IN  IF found # {}
              THEN \E c \in found :
                      Becomes(h, [h EXCEPT !.loc.convId = c.id,
                                           !.loc.unread = c.unreadCount,
                                           !.pc = "updateConversation"])
              ELSE Becomes(h, [h EXCEPT !.pc = "insertConversation"])
    /\ UNCHANGED <<requests, dbVars, errLog, handed, createVars, launchVars, connVars, otherVars>>

\* await db.update(conversations).set({ unreadCount: (existingConv[0].unreadCount || 0) + 1 })
\*         .where(eq(conversations.id, conversationId))
UpdateConversation(h) ==
    /\ h.pc = "updateConversation"
    /\ conversations' =
          {IF c.id = h.loc.convId
              THEN [c EXCEPT !.unreadCount = h.loc.unread + 1]
              ELSE c : c \in conversations}
    /\ Becomes(h, [h EXCEPT !.pc = "insertMessage"])
    /\ UNCHANGED <<requests, leads, chatMessages, pipelines, pipelineStages,
                   errLog, handed, createVars, launchVars, connVars, otherVars>>

\* (mutant) the new conversation starts with unreadCount 0
InsertConversation_UnreadZero(h) ==
    /\ h.pc = "insertConversation"
    /\ conversations' = conversations \cup
          {[id |-> NextConversationId, leadId |-> h.loc.leadId,
            whatsappNumberId |-> h.userId, channel |-> "whatsapp",
            unreadCount |-> 0]}
    /\ Becomes(h, [h EXCEPT !.loc.convId = NextConversationId, !.pc = "insertMessage"])
    /\ UNCHANGED <<requests, leads, chatMessages, pipelines, pipelineStages,
                   errLog, handed, createVars, launchVars, connVars, otherVars>>

\* const [newConv] = await db.insert(conversations).values({ ..., unreadCount: 1 }).$returningId()
InsertConversation(h) ==
    /\ h.pc = "insertConversation"
    /\ conversations' = conversations \cup
          {[id |-> NextConversationId, leadId |-> h.loc.leadId,
            whatsappNumberId |-> h.userId, channel |-> "whatsapp",
            unreadCount |-> 1]}
    /\ Becomes(h, [h EXCEPT !.loc.convId = NextConversationId, !.pc = "insertMessage"])
    /\ UNCHANGED <<requests, leads, chatMessages, pipelines, pipelineStages,
                   errLog, handed, createVars, launchVars, connVars, otherVars>>

\* (mutant) a delivery whose whatsappMessageId is already stored in the
\* conversation is dropped
InsertMessage_Dedup(h, nxt) ==
    /\ h.pc = "insertMessage"
    /\ LET row == [conversationId |-> h.loc.convId,
                   whatsappMessageId |-> h.msg.id, direction |-> "inbound",
                   status |-> "delivered"]
       IN  chatMessages' = IF BagIn(row, chatMessages) THEN chatMessages
                           ELSE chatMessages (+) SetToBag({row})
    /\ HandlerReturn(h, nxt, h.threw)
    /\ UNCHANGED <<leads, conversations, pipelines, pipelineStages,
                   errLog, createVars, launchVars, connVars, otherVars>>

\* await db.insert(chatMessages).values({ conversationId, direction: 'inbound',
\*     whatsappMessageId: message.key.id, status: 'delivered', ... })
InsertMessage(h, nxt) ==
    /\ h.pc = "insertMessage"
    /\ chatMessages' = chatMessages (+) SetToBag(
          {[conversationId |-> h.loc.convId,
            whatsappMessageId |-> h.msg.id, direction |-> "inbound",
            status |-> "delivered"]})
    /\ HandlerReturn(h, nxt, h.threw)
    /\ UNCHANGED <<leads, conversations, pipelines, pipelineStages,
                   errLog, createVars, launchVars, connVars, otherVars>>

\* any statement of the try block (lines 218-306) can throw: connection lost,
\* timeout, constraint violation.  Control goes to the catch block.
HandlerPositions ==
    {"selectLead", "selectStage", "selectMaxOrder", "insertLead",
     "selectConversation", "updateConversation", "insertConversation", "insertMessage"}

StatementThrows(h, nxt) ==
    /\ h.pc \in HandlerPositions
    /\ CatchError(h, nxt)
    /\ UNCHANGED <<dbVars, createVars, launchVars, connVars, otherVars>>

\* ------------------------------------------------ leads.create (leads.ts)
\* the mutation returns (or throws) to the client
CreateReturn(c, result) ==
    /\ cres' = [cres EXCEPT ![c] = result]
    /\ cpc' = [cpc EXCEPT ![c] = "idle"]
    /\ cin' = [cin EXCEPT ![c] = NoInput]
    /\ cloc' = [cloc EXCEPT ![c] = NoCreateLocals]

CreateCall(c, input) ==
    /\ cpc[c] = "idle"
    /\ \A c2 \in Creates : c2 < c => cpc[c2] # "idle"
    /\ requests < MaxRequests
    /\ requests' = requests + 1
    /\ cin' = [cin EXCEPT ![c] = input]
    /\ cres' = [cres EXCEPT ![c] = NoResult]
    /\ cpc' = [cpc EXCEPT ![c] = "selectLead"]
    /\ UNCHANGED <<dbVars, upsertVars, launchVars, connVars, otherVars, cloc>>

\* (mutant) leads.create without its idempotency check
CreateSelectLead_NoExistingCheck(c) ==
    /\ cpc[c] = "selectLead"
    /\ cloc' = [cloc EXCEPT ![c].stageId = cin[c].pipelineStageId]
    /\ cpc' = [cpc EXCEPT ![c] =
          IF cin[c].pipelineStageId # NULL THEN "selectMaxOrder" ELSE "selectStage"]
    /\ UNCHANGED <<requests, dbVars, upsertVars, launchVars, connVars, otherVars, cres, cin>>

\* const existingLead = await db.select().from(leads).where(eq(leads.phone, input.phone)).limit(1)
\* if (existingLead[0]) return { id: existingLead[0].id, success: true, existed: true }
\* let stageId = input.pipelineStageId ?? null; if (!stageId) { ...default pipeline... }
CreateSelectLead(c) ==
    /\ cpc[c] = "selectLead"
    /\ LET found == {l \in leads : l.phone = cin[c].phone}
       IN  IF found # {}
              THEN \E l \in found :
                      CreateReturn(c, [id |-> l.id, success |-> TRUE,
                                       existed |-> TRUE, error |-> FALSE])
              ELSE /\ cloc' = [cloc EXCEPT ![c].stageId = cin[c].pipelineStageId]
                   /\ cpc' = [cpc EXCEPT ![c] =
                         IF cin[c].pipelineStageId # NULL THEN "selectMaxOrder"
                                                          ELSE "selectStage"]
                   /\ UNCHANGED <<cres, cin>>
    /\ UNCHANGED <<requests, dbVars, upsertVars, launchVars, connVars, otherVars>>

\* const p = await db.select().from(pipelines).where(eq(pipelines.isDefault, true)).limit(1)
\* const s = await db.select().from(pipelineStages)...orderBy(asc(order)).limit(1)
\* stageId = s[0]?.id ?? null; if (stageId) { select max ... }
CreateSelectStage(c) ==
    /\ cpc[c] = "selectStage"
    /\ IF \E p \in DefaultPipelines : FirstStages(p.id) # {}
          THEN \E p \in DefaultPipelines : \E s \in FirstStages(p.id) :
                  /\ cloc' = [cloc EXCEPT ![c].stageId = s.id]
                  /\ cpc' = [cpc EXCEPT ![c] = "selectMaxOrder"]
          ELSE /\ cpc' = [cpc EXCEPT ![c] = "insertLead"]
               /\ UNCHANGED cloc
    /\ UNCHANGED <<requests, dbVars, upsertVars, launchVars, connVars, otherVars, cin, cres>>

\* const maxRows = await db.select({ max })...; nextOrder = (max ?? 0) + 1
CreateSelectMaxOrder(c) ==
    /\ cpc[c] = "selectMaxOrder"
    /\ cloc' = [cloc EXCEPT ![c].nextOrder = NextKanbanOrder(cloc[c].stageId)]
    /\ cpc' = [cpc EXCEPT ![c] = "insertLead"]
    /\ UNCHANGED <<requests, dbVars, upsertVars, launchVars, connVars, otherVars, cin, cres>>

\* (the select on whatsapp_numbers that follows writes a column no modelled
\* statement reads; it is not a step of its own)
\* const result = await db.insert(leads).values({...}); return { id: insertId, success: true }
\* a duplicate phone throws out of the mutation
CreateInsertLead(c) ==
    /\ cpc[c] = "insertLead"
    /\ IF LeadPhoneTaken(cin[c].phone)
          THEN /\ CreateReturn(c, [id |-> NULL, success |-> FALSE,
                                   existed |-> FALSE, error |-> TRUE])
               /\ UNCHANGED leads
          ELSE /\ leads' = leads \cup
                     {[id |-> NextLeadId, phone |-> cin[c].phone,
                       pipelineStageId |-> cloc[c].stageId,
                       kanbanOrder |-> cloc[c].nextOrder,
                       source |-> "manual"]}
               /\ CreateReturn(c, [id |-> NextLeadId, success |-> TRUE,
                                   existed |-> FALSE, error |-> FALSE])
    /\ UNCHANGED <<requests, conversations, chatMessages, pipelines, pipelineStages,
                   upsertVars, launchVars, connVars, otherVars>>

\* ------------------------------------------ campaigns.launch (part_008)
\* (mutant) the campaign_recipients table without its unique key
RecipientTaken_NoUniqueKey(campaignId, leadId) == FALSE

\* campaign_recipients has UNIQUE KEY uq_campaign_lead (campaignId, leadId):
\* an insert of a pair that is already there fails with ER_DUP_ENTRY
RecipientTaken(campaignId, leadId) ==
    \E r \in BagToSet(campaignRecipients) :
       r.campaignId = campaignId /\ r.leadId = leadId

\* the mutation returns (or throws) to the client
LaunchReturn(k, result) ==
    /\ lres' = [lres EXCEPT ![k] = result]
    /\ lpc' = [lpc EXCEPT ![k] = "idle"]
    /\ lloc' = [lloc EXCEPT ![k] = NoLaunchLocals]

LaunchThrow(k) == LaunchReturn(k, [NoLaunchResult EXCEPT !.error = TRUE])

LaunchCall(k, campaignId) ==
    /\ lpc[k] = "idle"
    /\ \A k2 \in Launches : k2 < k => lpc[k2] # "idle"
    /\ requests < MaxRequests
    /\ requests' = requests + 1
    /\ lloc' = [lloc EXCEPT ![k].campaignId = campaignId]
    /\ lres' = [lres EXCEPT ![k] = NoLaunchResult]
    /\ lpc' = [lpc EXCEPT ![k] = "selectCampaign"]
    /\ UNCHANGED <<dbVars, upsertVars, createVars, connVars, otherVars, campaigns, campaignRecipients>>

\* const campaign = await db.select().from(campaigns).where(eq(campaigns.id, ..)).limit(1)
\* not found: throw; scheduled or running: return alreadyLaunched; not draft: throw
LaunchSelectCampaign(k) ==
    /\ lpc[k] = "selectCampaign"
    /\ LET found == {c \in campaigns : c.id = lloc[k].campaignId}
       IN  IF found = {}
              THEN LaunchThrow(k)
              ELSE \E c \in found :
                      IF c.status \in {"scheduled", "running"}
                         THEN LaunchReturn(k, [NoLaunchResult EXCEPT
                                 !.success = TRUE, !.alreadyLaunched = TRUE,
                                 !.recipientsCount = c.totalRecipients])
                         ELSE IF c.status # "draft"
                                 THEN LaunchThrow(k)
                                 ELSE /\ lpc' = [lpc EXCEPT ![k] = "selectAudience"]
                                      /\ UNCHANGED <<lloc, lres>>
    /\ UNCHANGED <<requests, dbVars, upsertVars, createVars, connVars, otherVars, campaigns, campaignRecipients>>

\* const audience = await db.select().from(leads).where(whereClause)
\* if (audience.length === 0) throw new Error("No recipients found for campaign")
\* (config is the audienceConfig of the row read by the previous statement; no
\* modelled statement writes it)
LaunchSelectAudience(k) ==
    /\ lpc[k] = "selectAudience"
    /\ LET filters == {c.stageFilter : c \in {d \in campaigns : d.id = lloc[k].campaignId}}
           audience == {l.id : l \in {m \in leads :
                           \A f \in filters : f # NULL => m.pipelineStageId = f}}
       IN  IF audience = {}
              THEN LaunchThrow(k)
              ELSE /\ lloc' = [lloc EXCEPT ![k].audience = audience, ![k].todo = audience]
                   /\ lpc' = [lpc EXCEPT ![k] = "insertRecipient"]
                   /\ UNCHANGED lres
    /\ UNCHANGED <<requests, dbVars, upsertVars, createVars, connVars, otherVars, campaigns, campaignRecipients>>

\* for (const lead of audience) { try { await db.insert(campaignRecipients).values({...});
\*     insertedCount++ } catch (err) { if (not a duplicate error) throw err } }
LaunchInsertRecipient(k) ==
    /\ lpc[k] = "insertRecipient"
    /\ \E leadId \in lloc[k].todo :
          /\ \A other \in lloc[k].todo : leadId <= other    \* rows in primary-key order
          /\ IF RecipientTaken(lloc[k].campaignId, leadId)
                THEN /\ UNCHANGED campaignRecipients
                     /\ lloc' = [lloc EXCEPT ![k].todo = @ \ {leadId}]
                ELSE /\ campaignRecipients' = campaignRecipients (+) SetToBag(
                           {[campaignId |-> lloc[k].campaignId, leadId |-> leadId,
                             status |-> "pending"]})
                     /\ lloc' = [lloc EXCEPT ![k].todo = @ \ {leadId},
                                             ![k].inserted = @ + 1]
          /\ lpc' = [lpc EXCEPT ![k] =
                IF lloc[k].todo = {leadId} THEN "updateCampaign" ELSE "insertRecipient"]
    /\ UNCHANGED <<requests, dbVars, upsertVars, createVars, connVars, otherVars, campaigns, lres>>

\* await db.update(campaigns).set({ status: "scheduled", totalRecipients: audience.length, .. })
\* return { success: true, recipientsCount: audience.length, inserted: insertedCount }
LaunchUpdateCampaign(k) ==
    /\ lpc[k] = "updateCampaign"
    /\ campaigns' =
          {IF c.id = lloc[k].campaignId
              THEN [c EXCEPT !.status = "scheduled",
                             !.totalRecipients = Cardinality(lloc[k].audience)]
              ELSE c : c \in campaigns}
    /\ LaunchReturn(k, [NoLaunchResult EXCEPT
          !.success = TRUE, !.recipientsCount = Cardinality(lloc[k].audience),
          !.inserted = lloc[k].inserted])
    /\ UNCHANGED <<requests, dbVars, upsertVars, createVars, connVars, otherVars, campaignRecipients>>

\* ------------------------------------------ BaileysService (baileys.ts)
\* everything but the connection state stays as it is
ConnOnly == UNCHANGED <<dbVars, upsertVars, createVars, launchVars, settingsVars, roleVars,
                        teamVars, envVars, sanVars, markVars, schedVars>>

\* no call of initializeSession(userId) is under way and no socket of the user
\* is alive but the one in the map
NothingElseRunning(userId) ==
    /\ pendingInit[userId] = 0
    /\ \A sk \in sockets : sk.userId = userId => sk.id = connections[userId].socket

\* BaileysService.initializeSession(userId, ..) is called: by the session
\* restore at startup or by the reconnect of the close handler.  The call
\* first awaits the auth state and the protocol version.
StartInitializeSession(pending, userId) ==
    [pending EXCEPT ![userId] = @ + 1]

InitializeSessionCall(userId) ==
    /\ requests < MaxRequests
    /\ requests' = requests + 1
    /\ pendingInit' = StartInitializeSession(pendingInit, userId)
    /\ afterDisconnect' = [afterDisconnect EXCEPT ![userId] = FALSE]
    /\ afterLogout' = [afterLogout EXCEPT ![userId] = FALSE]
    /\ UNCHANGED <<connections, sockets, socketsMade, closes, lastClose>>
    /\ ConnOnly

\* const sock = makeWASocket({...}); connections.set(userId, { status: 'connecting', socket: sock })
InitializeSessionSocket(userId) ==
    /\ pendingInit[userId] > 0
    /\ pendingInit' = [pendingInit EXCEPT ![userId] = @ - 1]
    /\ socketsMade' = socketsMade + 1
    /\ sockets' = sockets \cup {[id |-> socketsMade + 1, userId |-> userId]}
    /\ connections' = [connections EXCEPT ![userId] =
          [status |-> "connecting", socket |-> socketsMade + 1, qr |-> FALSE]]
    /\ UNCHANGED <<requests, closes, lastClose, sessVars>>
    /\ ConnOnly

\* connection.update with a qr:
\* connections.set(userId, { ...connections.get(userId)!, status: 'qr_ready', qr })
SocketQr(sock) ==
    /\ sock \in sockets
    /\ connections' = [connections EXCEPT ![sock.userId] =
          [status |-> "qr_ready", socket |-> @.socket, qr |-> TRUE]]
    /\ UNCHANGED <<requests, sockets, socketsMade, pendingInit, closes, lastClose, sessVars>>
    /\ ConnOnly

\* connection.update with connection === 'open':
\* connections.set(userId, { ...connections.get(userId)!, status: 'connected', qr: undefined })
SocketOpen(sock) ==
    /\ sock \in sockets
    /\ connections' = [connections EXCEPT ![sock.userId] =
          [status |-> "connected", socket |-> @.socket, qr |-> FALSE]]
    /\ UNCHANGED <<requests, sockets, socketsMade, pendingInit, closes, lastClose, sessVars>>
    /\ ConnOnly

\* (mutant) the reconnect gives up after the first close
ShouldReconnect_OnlyOnce(reason) == reason # "loggedOut" /\ closes < 1

\* const shouldReconnect = lastDisconnect?.error?.output?.statusCode !== DisconnectReason.loggedOut
ShouldReconnect(reason) == reason # "loggedOut"

\* connection.update with connection === 'close', as it changes the map and
\* the pending calls: connections.set(userId, { status: 'disconnected' });
\* if (shouldReconnect) this.initializeSession(userId, ..)
CloseHandlerMap(userId) ==
    [connections EXCEPT ![userId] =
        [status |-> "disconnected", socket |-> NoSocket, qr |-> FALSE]]
CloseHandlerPending(userId, reason) ==
    IF ShouldReconnect(reason) THEN StartInitializeSession(pendingInit, userId)
                               ELSE pendingInit

CloseReasons == {"loggedOut", "connectionLost", "restartRequired"}

\* the transport closes the socket
SocketClose(sock, reason) ==
    /\ sock \in sockets
    /\ closes < MaxCloses
    /\ closes' = closes + 1
    /\ lastClose' = [userId |-> sock.userId, reason |-> reason]
    /\ sockets' = sockets \ {sock}
    /\ connections' = CloseHandlerMap(sock.userId)
    /\ pendingInit' = CloseHandlerPending(sock.userId, reason)
    /\ afterLogout' = IF reason = "loggedOut" /\ pendingInit[sock.userId] = 0
                       THEN [afterLogout EXCEPT ![sock.userId] = TRUE]
                       ELSE afterLogout
    /\ UNCHANGED <<requests, socketsMade, afterDisconnect>>
    /\ ConnOnly

\* BaileysService.disconnect(userId): if (conn?.socket) { conn.socket.end(undefined);
\*     connections.delete(userId); ...remove the session files }
\* end() emits connection.update { connection: 'close' } with no error before it
\* returns, so the close handler above runs first, with a reason that is not loggedOut.
Disconnect(userId) ==
    /\ requests < MaxRequests
    /\ requests' = requests + 1
    /\ IF connections[userId].socket # NoSocket
          THEN /\ closes < MaxCloses
               /\ closes' = closes + 1
               /\ lastClose' = [userId |-> userId, reason |-> "connectionClosed"]
               /\ sockets' = {sk \in sockets : sk.id # connections[userId].socket}
               /\ pendingInit' = CloseHandlerPending(userId, "connectionClosed")
               /\ connections' = [connections EXCEPT ![userId] = NoConnection]
          ELSE UNCHANGED <<connections, sockets, pendingInit, closes, lastClose>>
    /\ afterDisconnect' = IF NothingElseRunning(userId)
                           THEN [afterDisconnect EXCEPT ![userId] = TRUE]
                           ELSE afterDisconnect
    /\ UNCHANGED <<socketsMade, afterLogout>>
    /\ ConnOnly

\* BaileysService.getStatus(userId): connections.get(userId)?.status || 'disconnected'
GetStatus(userId) ==
    IF connections[userId].status = "absent" THEN "disconnected"
    ELSE connections[userId].status

\* ------------------------------------------------------------------ Next
HandlerStep(h) ==
    \/ SelectLead(h)
    \/ SelectFirstStage(h)
    \/ SelectMaxOrder(h)
    \/ \E nxt \in NextMessages : InsertLead(h, nxt)
    \/ SelectConversation(h)
    \/ UpdateConversation(h)
    \/ InsertConversation(h)
    \/ \E nxt \in NextMessages : InsertMessage(h, nxt)

UpsertStep ==
    \/ \E u \in UserIds, t \in {"notify", "append"} : \E m \in Messages :
          OnMessagesUpsert(u, t, m, TRUE)
    \/ \E h \in Running : HandlerStep(h)

CreateStep(c) ==
    \/ \E i \in CreateInputs : CreateCall(c, i)
    \/ CreateSelectLead(c)
    \/ CreateSelectStage(c)
    \/ CreateSelectMaxOrder(c)
    \/ CreateInsertLead(c)

Next ==
    \/ UpsertStep
    \/ \E c \in Creates : CreateStep(c)

Spec == Init /\ [][Next]_vars

\* ------------------------------------------------ chat.markAsRead (routers)
MarkOnly == UNCHANGED <<leads, pipelines, pipelineStages, upsertVars, createVars, launchVars,
                        connVars, settingsVars, roleVars, teamVars, envVars, sanVars, sessVars, schedVars>>
ConversationIds == {1, 2}

MarkAsReadCall(conversationId) ==
    /\ mpc = "idle"
    /\ requests < MaxRequests
    /\ requests' = requests + 1
    /\ mpc' = "updateMessages"
    /\ mconv' = conversationId
    /\ UNCHANGED <<conversations, chatMessages>>
    /\ MarkOnly

\* await db.update(chatMessages).set({ status: 'read' }).where(conversationId,
\* direction = 'inbound', status = 'delivered')
MarkAsReadUpdateMessages ==
    /\ mpc = "updateMessages"
    /\ LET hit(r) == r.conversationId = mconv /\ r.direction = "inbound"
                     /\ r.status = "delivered"
           rows == BagToSet(chatMessages)
           after == {IF hit(r) THEN [r EXCEPT !.status = "read"] ELSE r : r \in rows}
       IN  chatMessages' =
              [t \in after |->
                  (IF t \in rows /\ ~hit(t) THEN CopiesIn(t, chatMessages) ELSE 0)
                  + (IF t.status = "read"
                     THEN LET d == [t EXCEPT !.status = "delivered"]
                          IN  IF hit(d) THEN CopiesIn(d, chatMessages) ELSE 0
                     ELSE 0)]
    /\ mpc' = "resetUnread"
    /\ UNCHANGED <<requests, conversations, mconv>>
    /\ MarkOnly

\* await db.update(conversations).set({ unreadCount: 0 }).where(id)
MarkAsReadResetUnread ==
    /\ mpc = "resetUnread"
    /\ conversations' = {IF c.id = mconv THEN [c EXCEPT !.unreadCount = 0] ELSE c :
                            c \in conversations}
    /\ mpc' = "idle"
    /\ UNCHANGED <<requests, chatMessages, mconv>>
    /\ MarkOnly

MarkStep ==
    \/ \E c \in ConversationIds : MarkAsReadCall(c)
    \/ MarkAsReadUpdateMessages
    \/ MarkAsReadResetUnread

\* one messages.upsert event at a time, chat.markAsRead at any moment
ChatNext ==
    \/ /\ handlers = EmptyBag
       /\ \E u \in UserIds, t \in {"notify", "append"} : \E m \in Messages :
             OnMessagesUpsert(u, t, m, TRUE)
    \/ \E h \in Running : HandlerStep(h)
    \/ MarkStep

SpecChat == Init /\ [][ChatNext]_vars

\* Requests served one at a time: a handler call or a leads.create call runs
\* from its first statement to its return before any other request steps.
HandlersQuiet == handlers = EmptyBag
CreatesQuiet == \A c \in Creates : cpc[c] = "idle"
Quiet == HandlersQuiet /\ CreatesQuiet

SeqNext ==
    \/ /\ HandlersQuiet /\ CreatesQuiet
       /\ \E u \in UserIds, t \in {"notify", "append"} : \E m \in Messages :
             OnMessagesUpsert(u, t, m, TRUE)
    \/ /\ CreatesQuiet
       /\ \E h \in Running : HandlerStep(h)
    \/ \E c \in Creates :
          /\ HandlersQuiet
          /\ \A c2 \in Creates \ {c} : cpc[c2] = "idle"
          /\ CreateStep(c)

SpecSeq == Init /\ [][SeqNext]_vars

\* ------------------------------------------------- campaigns.launch alone
CampaignIds == {1, 2, 3}

\* two leads in different stages; campaign 1 addresses every lead, campaign 2
\* the leads of stage 2 and is a draft or already completed; there is no campaign 3
InitCampaign ==
    /\ requests = 0
    /\ leads = {[id |-> 1, phone |-> "+1", pipelineStageId |-> 2, kanbanOrder |-> 1,
                 source |-> "whatsapp_inbound"],
                [id |-> 2, phone |-> "2", pipelineStageId |-> 1, kanbanOrder |-> 1,
                 source |-> "manual"]}
    /\ conversations = {}
    /\ chatMessages = EmptyBag
    /\ pipelines = {[id |-> 1, isDefault |-> TRUE]}
    /\ pipelineStages = {[id |-> 1, pipelineId |-> 1, order |-> 2],
                         [id |-> 2, pipelineId |-> 1, order |-> 1]}
    /\ handlers = EmptyBag
    /\ errLog = 0
    /\ handed = [k \in HandKeys |-> 0]
    /\ cpc = [c \in Creates |-> "idle"]
    /\ cin = [c \in Creates |-> NoInput]
    /\ cloc = [c \in Creates |-> NoCreateLocals]
    /\ cres = [c \in Creates |-> NoResult]
    /\ \E st \in {"draft", "completed"}, f \in {2, 3} :
          campaigns = {[id |-> 1, status |-> "draft", totalRecipients |-> 0,
                        stageFilter |-> NULL],
                       [id |-> 2, status |-> st, totalRecipients |-> 0,
                        stageFilter |-> f]}
    /\ campaignRecipients = EmptyBag
    /\ InitLaunches
    /\ InitConnections
    /\ InitOther

LaunchStep(k) ==
    \/ \E id \in CampaignIds : LaunchCall(k, id)
    \/ LaunchSelectCampaign(k)
    \/ LaunchSelectAudience(k)
    \/ LaunchInsertRecipient(k)
    \/ LaunchUpdateCampaign(k)

CampaignNext == \E k \in Launches : LaunchStep(k)

SpecCampaign == InitCampaign /\ [][CampaignNext]_vars

\* ------------------------------------- statements of the handler may fail
\* getDb() may return no connection, and any statement of the try block may throw
FaultNext ==
    \/ Next
    \/ \E h \in Running : \E nxt \in NextMessages : StatementThrows(h, nxt)
    \/ \E u \in UserIds : \E m \in Messages : OnMessagesUpsert(u, "notify", m, FALSE)

SpecFault == Init /\ [][FaultNext]_vars

\* ------------------------------------------------- the Baileys sessions alone
ConnNext ==
    \/ \E u \in UserIds : InitializeSessionCall(u)
    \/ \E u \in UserIds : InitializeSessionSocket(u)
    \/ \E sk \in sockets : SocketQr(sk)
    \/ \E sk \in sockets : SocketOpen(sk)
    \/ \E sk \in sockets : \E r \in CloseReasons : SocketClose(sk, r)
    \/ \E u \in UserIds : Disconnect(u)

SpecConn == Init /\ [][ConnNext]_vars

\* ------------------------------------------------ app_settings (part_008, index.ts)
SettingsOnly == UNCHANGED <<dbVars, upsertVars, createVars, launchVars, connVars, roleVars, teamVars, envVars, sanVars, markVars, sessVars, schedVars>>

\* the value a row gets in the column singleton when the insert names none:
\* the column's default in drizzle/schema.ts
SingletonDefault == 1

\* (mutant) app_settings without its unique key
SingletonTaken_NoUniqueKey(v) == FALSE

\* app_settings has UNIQUE KEY uniq_app_settings_singleton (singleton): an insert
\* of a value that is already there fails with ER_DUP_ENTRY (NULLs never collide)
SingletonTaken(v) == v # NULL /\ \E r \in appSettings : r.singleton = v

NextSettingsId == Cardinality(appSettings) + 1

\* getOrCreateAppSettings(db): const rows = await db.select()...limit(1);
\* if (rows[0]) return rows[0]
GetOrCreateSelect(g) ==
    /\ gpc[g] = "idle"
    /\ requests < MaxRequests
    /\ requests' = requests + 1
    /\ IF appSettings # {}
          THEN gres' = [gres EXCEPT ![g] = "existing"] /\ UNCHANGED gpc
          ELSE /\ gpc' = [gpc EXCEPT ![g] = "insert"]
               /\ gres' = [gres EXCEPT ![g] = "none"]
    /\ UNCHANGED <<appSettings, epc>>
    /\ SettingsOnly

\* await db.insert(appSettings).values({ singleton: 1, ... }); a duplicate
\* throws out of getOrCreateAppSettings
GetOrCreateInsert(g) ==
    /\ gpc[g] = "insert"
    /\ IF SingletonTaken(1)
          THEN /\ gpc' = [gpc EXCEPT ![g] = "idle"]
               /\ gres' = [gres EXCEPT ![g] = "threw"]
               /\ UNCHANGED appSettings
          ELSE /\ appSettings' = appSettings \cup {[id |-> NextSettingsId, singleton |-> 1]}
               /\ gpc' = [gpc EXCEPT ![g] = "reselect"]
               /\ UNCHANGED gres
    /\ UNCHANGED <<requests, epc>>
    /\ SettingsOnly

\* const created = await db.select()...orderBy(desc(id)).limit(1); return created[0]
GetOrCreateReselect(g) ==
    /\ gpc[g] = "reselect"
    /\ gpc' = [gpc EXCEPT ![g] = "idle"]
    /\ gres' = [gres EXCEPT ![g] = "created"]
    /\ UNCHANGED <<requests, appSettings, epc>>
    /\ SettingsOnly

\* ensureAppSettings(): const db = await getDb(); if (!db) return;
\* const rows = await db.select().from(appSettings).limit(1); if (rows.length === 0) ...
EnsureSelect(dbOk) ==
    /\ epc = "select"
    /\ epc' = IF dbOk /\ appSettings = {} THEN "insert" ELSE "done"
    /\ UNCHANGED <<requests, appSettings, gpc, gres>>
    /\ SettingsOnly

\* await db.insert(appSettings).values({ companyName, ..., permissionsMatrix, ... })
\* (no value for singleton); catch (e) { console.error("[SEED] Failed ...") }
EnsureInsert ==
    /\ epc = "insert"
    /\ IF SingletonTaken(SingletonDefault)
          THEN epc' = "failed" /\ UNCHANGED appSettings
          ELSE /\ appSettings' = appSettings \cup
                     {[id |-> NextSettingsId, singleton |-> SingletonDefault]}
               /\ epc' = "seeded"
    /\ UNCHANGED <<requests, gpc, gres>>
    /\ SettingsOnly

SettingsNext ==
    \/ \E g \in SettingsCalls : GetOrCreateSelect(g)
    \/ \E g \in SettingsCalls : GetOrCreateInsert(g)
    \/ \E g \in SettingsCalls : GetOrCreateReselect(g)
    \/ \E ok \in BOOLEAN : EnsureSelect(ok)
    \/ EnsureInsert

SpecSettings == Init /\ [][SettingsNext]_vars

\* ------------------------------------------------ effective role (rbac.ts, security-helpers.ts)
RbacOnly == UNCHANGED <<requests, dbVars, upsertVars, createVars, launchVars, connVars,
                        settingsVars, teamVars, envVars, sanVars, markVars, sessVars, schedVars>>

\* const role = computeEffectiveRole({ baseRole, customRole, permissionsMatrix: matrix })
ComputeEffectiveRoleCall(baseRole, customRole, matrix) ==
    /\ rbac = NoRbac
    /\ rbac' = [fn |-> "computeEffectiveRole", baseRole |-> baseRole,
                customRole |-> customRole, matrix |-> matrix,
                result |-> computeEffectiveRole(baseRole, customRole, matrix)]
    /\ RbacOnly

GetEffectiveRoleCall(baseRole, customRole, matrix) ==
    /\ rbac = NoRbac
    /\ rbac' = [fn |-> "getEffectiveRole", baseRole |-> baseRole,
                customRole |-> customRole, matrix |-> matrix,
                result |-> getEffectiveRole(baseRole, customRole, matrix)]
    /\ RbacOnly

RbacNext ==
    \/ \E b \in BaseRoles, c \in CustomRoles, m \in Matrices : ComputeEffectiveRoleCall(b, c, m)
    \/ \E b \in BaseRoles, c \in CustomRoles, m \in Matrices : GetEffectiveRoleCall(b, c, m)

SpecRbac == Init /\ [][RbacNext]_vars

\* ------------------------------------------------ team.updateCustomRole (routers)
TeamOnly == UNCHANGED <<dbVars, upsertVars, createVars, launchVars, connVars, settingsVars,
                        roleVars, envVars, sanVars, markVars, sessVars, schedVars>>

UpdateCustomRoleCall(userId, callerRole, customRole) ==
    /\ ucr.pc = "idle"
    /\ requests < MaxRequests
    /\ requests' = requests + 1
    /\ ucr' = [pc |-> "selectTarget", userId |-> userId, callerRole |-> callerRole,
               customRole |-> customRole, value |-> Null, res |-> "none"]
    /\ UNCHANGED userRows
    /\ TeamOnly

\* const target = await db.select().from(users)...; the owner protection; value
UpdateCustomRoleSelectTarget ==
    /\ ucr.pc = "selectTarget"
    /\ LET value == IF Falsy(ucr.customRole) THEN Null ELSE Trim(ucr.customRole)
       IN  IF userRows[ucr.userId].role = Str("owner") /\ ucr.callerRole # Str("owner")
           THEN ucr' = [ucr EXCEPT !.pc = "idle", !.res = "threw"]
           ELSE IF value = Str("owner")
           THEN ucr' = [ucr EXCEPT !.pc = "idle", !.res = "threw", !.value = value]
           ELSE IF ~Falsy(value)
           THEN ucr' = [ucr EXCEPT !.pc = "selectSettings", !.value = value]
           ELSE ucr' = [ucr EXCEPT !.pc = "update", !.value = value]
    /\ UNCHANGED <<requests, userRows>>
    /\ TeamOnly

\* const settings = await db.select().from(appSettings).limit(1); hasOwnProperty
UpdateCustomRoleSelectSettings(matrix) ==
    /\ ucr.pc = "selectSettings"
    /\ IF ~HasOwnProperty(matrix, ucr.value)
       THEN ucr' = [ucr EXCEPT !.pc = "idle", !.res = "threw"]
       ELSE ucr' = [ucr EXCEPT !.pc = "update"]
    /\ UNCHANGED <<requests, userRows>>
    /\ TeamOnly

\* await db.update(users).set({ customRole: value })
UpdateCustomRoleUpdate ==
    /\ ucr.pc = "update"
    /\ userRows' = [userRows EXCEPT ![ucr.userId].customRole = ucr.value]
    /\ ucr' = [ucr EXCEPT !.pc = "idle", !.res = "success"]
    /\ UNCHANGED requests
    /\ TeamOnly

TeamNext ==
    \/ \E u \in UserIds, r \in CallerRoles, c \in CustomRoles : UpdateCustomRoleCall(u, r, c)
    \/ UpdateCustomRoleSelectTarget
    \/ \E m \in StoredMatrices : UpdateCustomRoleSelectSettings(m)
    \/ UpdateCustomRoleUpdate

SpecTeam == Init /\ [][TeamNext]_vars

\* ------------------------------------------------ startServer (index.ts)
EnvOnly == UNCHANGED <<requests, dbVars, upsertVars, createVars, launchVars, connVars,
                       settingsVars, roleVars, teamVars, sanVars, markVars, sessVars, schedVars>>

\* the process starts with some environment; run() calls startServer()
ProcessStart(env) ==
    /\ spc = "notStarted"
    /\ processEnv' = env
    /\ spc' = "validate"
    /\ UNCHANGED <<httpServer, listening>>
    /\ EnvOnly

\* validateProductionSecrets();
StartServerValidate ==
    /\ spc = "validate"
    /\ spc' = IF validateProductionSecrets(processEnv) THEN "threw" ELSE "assertDb"
    /\ UNCHANGED <<processEnv, httpServer, listening>>
    /\ EnvOnly

\* await assertDbConstraints();
StartServerAssertDb(dbOk) ==
    /\ spc = "assertDb"
    /\ spc' = IF dbOk THEN "create" ELSE "threw"
    /\ UNCHANGED <<processEnv, httpServer, listening>>
    /\ EnvOnly

\* const server = createServer(app);
StartServerCreate ==
    /\ spc = "create"
    /\ httpServer' = TRUE
    /\ spc' = "listen"
    /\ UNCHANGED <<processEnv, listening>>
    /\ EnvOnly

\* server.listen(port, "0.0.0.0", ...)
StartServerListen ==
    /\ spc = "listen"
    /\ listening' = TRUE
    /\ spc' = "started"
    /\ UNCHANGED <<processEnv, httpServer>>
    /\ EnvOnly

EnvNext ==
    \/ \E n \in NodeEnvs, j \in EnvValues, o \in EnvValues, k \in EnvValues :
          ProcessStart([NODE_ENV |-> n, JWT_SECRET |-> j, OWNER_OPEN_ID |-> o,
                        DATA_ENCRYPTION_KEY |-> k])
    \/ StartServerValidate
    \/ \E dbOk \in BOOLEAN : StartServerAssertDb(dbOk)
    \/ StartServerCreate
    \/ StartServerListen

SpecEnv == Init /\ [][EnvNext]_vars

\* ------------------------------------------------ settings.get (routers)
SanitizeOnly == UNCHANGED <<requests, dbVars, upsertVars, createVars, launchVars, connVars,
                            settingsVars, roleVars, teamVars, envVars, markVars, sessVars, schedVars>>

\* settings.get answered for two rows: return sanitizeAppSettings(row)
SettingsGet(pSmtp, pAi, pMaps, pStorage) ==
    /\ san = NoSan
    /\ LET rowA == SettingsRow(pSmtp[1], pAi[1], pMaps[1], pStorage[1])
           rowB == SettingsRow(pSmtp[2], pAi[2], pMaps[2], pStorage[2])
       IN  san' = [fn |-> "sanitizeAppSettings", rowA |-> rowA, rowB |-> rowB,
                   outA |-> sanitizeAppSettings(rowA), outB |-> sanitizeAppSettings(rowB)]
    /\ SanitizeOnly

\* the same with the masking version of sanitizeAppSettings
SettingsGetMask(pSmtp, pAi, pMaps, pStorage) ==
    /\ san = NoSan
    /\ LET rowA == SettingsRow(pSmtp[1], pAi[1], pMaps[1], pStorage[1])
           rowB == SettingsRow(pSmtp[2], pAi[2], pMaps[2], pStorage[2])
       IN  san' = [fn |-> "sanitizeAppSettingsMask", rowA |-> rowA, rowB |-> rowB,
                   outA |-> sanitizeAppSettingsMask(rowA),
                   outB |-> sanitizeAppSettingsMask(rowB)]
    /\ SanitizeOnly

SanitizeNext ==
    \/ \E a \in ConfigPairs("smtpConfig"), b \in ConfigPairs("aiConfig"),
          c \in ConfigPairs("mapsConfig"), e \in ConfigPairs("storageConfig") :
          SettingsGet(a, b, c, e)
    \/ \E a \in ConfigPairs("smtpConfig"), b \in ConfigPairs("aiConfig"),
          c \in ConfigPairs("mapsConfig"), e \in ConfigPairs("storageConfig") :
          SettingsGetMask(a, b, c, e)

SpecSanitize == Init /\ [][SanitizeNext]_vars

\* ------------------------------------------------ scheduling (routers)
SchedulingOnly == UNCHANGED <<requests, dbVars, upsertVars, createVars, launchVars, connVars,
                              settingsVars, roleVars, teamVars, envVars, sanVars, markVars,
                              sessVars>>
SchedulingIdle == apc = "idle" /\ acalls < MaxCalls

\* scheduling.create({ appointmentDate, appointmentTime, .. })
SchedulingCreateCall(date, time) ==
    /\ SchedulingIdle
    /\ acalls' = acalls + 1
    /\ ain' = [appointmentDate |-> date, appointmentTime |-> time]
    /\ aloc' = NoAppointmentLocals
    /\ apc' = "selectSettings"
    /\ ares' = "none"
    /\ UNCHANGED appointments
    /\ SchedulingOnly

\* const settingsRows = await db.select().from(appSettings).limit(1)
SchedulingSelectSettings ==
    /\ apc = "selectSettings"
    /\ aloc' = [aloc EXCEPT !.maxPerSlot = MaxPerSlotDefault]
    /\ apc' = "count"
    /\ UNCHANGED <<appointments, ain, ares, acalls>>
    /\ SchedulingOnly

\* const existing = await db.select({ count: count() }).from(appointments).where(date, time);
\* if (existingCount >= maxPerSlot) throw
SchedulingCount ==
    /\ apc = "count"
    /\ LET existingCount ==
              Cardinality(InSlot(SetHoursZero(ain.appointmentDate), ain.appointmentTime))
       IN  /\ aloc' = [aloc EXCEPT !.existingCount = existingCount]
           /\ IF existingCount >= aloc.maxPerSlot
              THEN apc' = "idle" /\ ares' = "threw"
              ELSE apc' = "insert" /\ ares' = ares
    /\ UNCHANGED <<appointments, ain, acalls>>
    /\ SchedulingOnly

\* await db.insert(appointments).values({ ...input, appointmentDate: normalizedDate })
SchedulingInsert ==
    /\ apc = "insert"
    /\ appointments' = appointments \cup
          {[id |-> Cardinality(appointments) + 1,
            appointmentDate |-> SetHoursZero(ain.appointmentDate),
            appointmentTime |-> ain.appointmentTime]}
    /\ apc' = "idle"
    /\ ares' = "created"
    /\ UNCHANGED <<ain, aloc, acalls>>
    /\ SchedulingOnly

\* scheduling.update({ id, appointmentDate?, appointmentTime?, .. }):
\* await db.update(appointments).set(updateData).where(eq(appointments.id, id))
SchedulingUpdate(id, date, time) ==
    /\ SchedulingIdle
    /\ acalls' = acalls + 1
    /\ LET set(a) == [a EXCEPT
                         !.appointmentDate = IF date # NoDate THEN date ELSE @,
                         !.appointmentTime = IF time # Undefined THEN time ELSE @]
       IN  appointments' = {IF a.id = id THEN set(a) ELSE a : a \in appointments}
    /\ ares' = "updated"
    /\ UNCHANGED <<apc, ain, aloc>>
    /\ SchedulingOnly

SchedulingNext ==
    \/ \E d \in Dates, t \in Times : SchedulingCreateCall(d, t)
    \/ SchedulingSelectSettings
    \/ SchedulingCount
    \/ SchedulingInsert
    \/ \E id \in 1..MaxCalls, d \in Dates \cup {NoDate}, t \in Times \cup {Undefined} :
          SchedulingUpdate(id, d, t)

\* the server with an empty database
InitScheduling ==
    /\ requests = 0
    /\ leads = {}
    /\ conversations = {}
    /\ chatMessages = EmptyBag
    /\ pipelines = {}
    /\ pipelineStages = {}
    /\ handlers = EmptyBag
    /\ errLog = 0
    /\ handed = [k \in HandKeys |-> 0]
    /\ cpc = [c \in Creates |-> "idle"]
    /\ cin = [c \in Creates |-> NoInput]
    /\ cloc = [c \in Creates |-> NoCreateLocals]
    /\ cres = [c \in Creates |-> NoResult]
    /\ campaigns = {}
    /\ campaignRecipients = EmptyBag
    /\ InitLaunches
    /\ InitConnections
    /\ InitOther

SpecScheduling == InitScheduling /\ [][SchedulingNext]_vars

\* --------------------------------------------------- reading the database
RECURSIVE SumOf(_, _)
SumOf(f, S) ==
    IF S = {} THEN 0
    ELSE LET x == CHOOSE y \in S : TRUE IN f[x] + SumOf(f, S \ {x})

LeadsWithPhone(phone) == {l \in leads : l.phone = phone}

\* number of chat_messages rows of a conversation / of one whatsappMessageId in it
RowsIn(convId) ==
    LET rows == {r \in BagToSet(chatMessages) : r.conversationId = convId}
    IN  SumOf([r \in rows |-> CopiesIn(r, chatMessages)], rows)
RowsWithId(convId, msgId) ==
    LET rows == {r \in BagToSet(chatMessages) :
                    r.conversationId = convId /\ r.whatsappMessageId = msgId
                    /\ r.direction = "inbound"}
    IN  SumOf([r \in rows |-> CopiesIn(r, chatMessages)], rows)

\* how many messages of phone p passed the filters, for number u / for any number
HandedTo(u, p) == SumOf([i \in MsgIds |-> handed[<<u, p, i>>]], MsgIds)
HandedFrom(p) == SumOf([u \in UserIds |-> HandedTo(u, p)], UserIds)

TypeOK ==
    /\ \A l \in leads : l.id \in 1..Cardinality(leads)
    /\ \A c \in conversations : c.unreadCount \in Nat
    /\ requests \in 0..MaxRequests

\* ================================================================ claims

\* C1: leads.create with a phone that already belongs to a lead returns that
\* lead's id with existed: true and inserts no row; exactly one lead has the
\* phone afterwards.
C1_CreateExistingReturnsExisting ==
    [][\A c \in Creates :
          (cpc[c] = "selectLead" /\ cpc'[c] # "selectLead"
           /\ LeadsWithPhone(cin[c].phone) # {})
          => /\ leads' = leads
             /\ cpc'[c] = "idle"
             /\ cres'[c].existed /\ cres'[c].success
             /\ cres'[c].id \in {l.id : l \in LeadsWithPhone(cin[c].phone)}
             /\ Cardinality(LeadsWithPhone(cin[c].phone)) = 1]_vars

\* a create has returned existed: true
C1_Witness == \E c \in Creates : cres[c].existed /\ cres[c].id # NULL

\* C2: no two lead rows have the same phone number, whatever the interleaving
\* of leads.create requests and inbound handlers.
C2_LeadPhoneUnique ==
    \A l1 \in leads : \A l2 \in leads : l1.phone = l2.phone => l1 = l2

\* two requests raced to insert the same phone and the loser was rejected
C2_Witness ==
    /\ (errLog > 0 \/ \E c \in Creates : cres[c].error)
    /\ leads # {}

\* C3 (requests served one at a time): after one accepted inbound message from
\* a phone that had no lead there is exactly one lead with that phone, exactly
\* one conversation of that lead on the receiving number, unreadCount 1, and
\* exactly one inbound row in it.
C3_FirstMessageCreatesAll ==
    \A u \in UserIds : \A p \in HandlerPhones :
       (HandlersQuiet /\ HandedFrom(p) = 1 /\ HandedTo(u, p) = 1
        /\ \A l \in LeadsWithPhone(p) : l.source = "whatsapp_inbound")
       => /\ Cardinality(LeadsWithPhone(p)) = 1
          /\ \A l \in LeadsWithPhone(p) :
                /\ {c \in conversations : c.leadId = l.id} = ConversationsOf(l.id, u)
                /\ Cardinality(ConversationsOf(l.id, u)) = 1
                /\ \A c \in ConversationsOf(l.id, u) :
                      /\ c.unreadCount = 1
                      /\ RowsIn(c.id) = 1
                      /\ \E i \in MsgIds : handed[<<u, p, i>>] = 1 /\ RowsWithId(c.id, i) = 1

\* a message from +2 (no lead at start) has been processed to the end
C3_Witness ==
    /\ HandlersQuiet
    /\ HandedFrom("+2") = 1
    /\ \E l \in LeadsWithPhone("+2") : \E c \in conversations : c.leadId = l.id /\ RowsIn(c.id) = 1

\* C4 (as claimed): when no handler is in progress, a conversation's
\* unreadCount equals the number of inbound messages processed for it.
C4_UnreadCountsMessages ==
    HandlersQuiet => \A c \in conversations : c.unreadCount = RowsIn(c.id)

\* C5 (as claimed): at most one WhatsApp conversation per (lead, number) pair.
C5_OneConversationPerPair ==
    \A c1 \in conversations : \A c2 \in conversations :
       (c1.leadId = c2.leadId /\ c1.whatsappNumberId = c2.whatsappNumberId
        /\ c1.channel = c2.channel) => c1 = c2

\* C6 (requests served one at a time): no deduplication of deliveries.  A
\* message id handed to the handler k >= 2 times for the same sender and
\* number leaves k rows with that id in the one conversation, an unread
\* counter raised once per delivery, and still one lead for the phone.
C6_NoDeliveryDedup ==
    \A u \in UserIds : \A p \in HandlerPhones : \A i \in MsgIds :
       (HandlersQuiet /\ handed[<<u, p, i>>] >= 2)
       => /\ Cardinality(LeadsWithPhone(p)) = 1
          /\ \A l \in LeadsWithPhone(p) :
                /\ Cardinality(ConversationsOf(l.id, u)) = 1
                /\ \A c \in ConversationsOf(l.id, u) :
                      /\ RowsWithId(c.id, i) = handed[<<u, p, i>>]
                      /\ c.unreadCount = HandedTo(u, p)

\* the same message id was handed over twice and both calls have returned
C6_Witness ==
    /\ HandlersQuiet
    /\ \E u \in UserIds : \E p \in HandlerPhones : \E i \in MsgIds :
          /\ handed[<<u, p, i>>] = 2
          /\ \E c \in conversations : RowsWithId(c.id, i) = 2 /\ c.unreadCount = 2

\* C10: after any interleaving of campaigns.launch calls, each (campaign,
\* lead) pair has at most one recipient row.
C10_RecipientUnique ==
    \A r \in BagToSet(campaignRecipients) :
       /\ CopiesIn(r, campaignRecipients) = 1
       /\ \A r2 \in BagToSet(campaignRecipients) :
             (r2.campaignId = r.campaignId /\ r2.leadId = r.leadId) => r2 = r

\* a launch has returned after at least one of its inserts hit a duplicate
C10_Witness ==
    \E k \in Launches :
       lres[k].success /\ ~lres[k].alreadyLaunched
       /\ lres[k].inserted < lres[k].recipientsCount

C7_CloseAlwaysReconnects ==
    [][(closes' = closes + 1 /\ lastClose'.reason # "loggedOut")
       => pendingInit'[lastClose'.userId] = pendingInit[lastClose'.userId] + 1]_vars

\* a second close in a row, again not logged-out, has started a new session
C7_Witness ==
    /\ closes = 2
    /\ lastClose.reason = "connectionLost"
    /\ pendingInit[lastClose.userId] > 0
    /\ socketsMade >= 2

\* C8: a handler call that ends without storing its message (a statement
\* threw) is logged, returns into the for loop of its upsert handler, which
\* completes or goes on with the next message of the event; the step leaves
\* every table as it was at the failure and touches no other handler; no
\* upsert handler is ever rejected.
C8_FailureContained ==
    [][/\ \A h \in BagToSet(handlers') : h.pc # "rejected"
       /\ \A h \in Running :
             LET rest == handlers (-) SetToBag({h})
                 CallEnded ==
                    \/ handlers' = rest
                    \/ \E h2 \in BagToSet(handlers') :
                          /\ h2.pc \notin HandlerPositions \ {"selectLead"}
                          /\ handed' # handed
                          /\ handlers' = rest (+) SetToBag({h2})
             IN  (CallEnded /\ chatMessages' = chatMessages)
                 => /\ errLog' = errLog + 1
                    /\ dbVars' = dbVars
                    /\ \/ handlers' = rest
                       \/ \E m \in AcceptedMessages :
                             handlers' = rest (+) SetToBag({Handler(h.userId, TRUE, m)})]_vars

\* after a handler call of an upsert event threw, a later message of the same
\* event has been processed up to its last statement
C8_Witness ==
    \E h \in Running : h.threw /\ h.pc = "insertMessage" /\ errLog > 0

C12_OwnerIffBaseOwner ==
    rbac.fn # "none" => (rbac.result = Str("owner") <=> rbac.baseRole = Str("owner"))

\* an owner with a custom role that the matrix knows, and a non-owner whose
\* custom role trims to 'owner' and is a key of the matrix
C12_Witness ==
    /\ rbac.fn = "computeEffectiveRole"
    /\ \/ /\ rbac.baseRole = Str("owner") /\ rbac.customRole = Str("admin")
          /\ Str("admin") \in rbac.matrix /\ rbac.result = Str("owner")
       \/ /\ rbac.baseRole = Str("admin") /\ rbac.customRole = Padded("owner")
          /\ Str("owner") \in rbac.matrix /\ rbac.result = Str("admin")

\* C13: team.updateCustomRole never stores a reserved system role (owner,
\* admin, supervisor, agent, viewer) as a user's customRole: a request that
\* names one does not succeed and no row holds one.
C13_NoReservedCustomRole ==
    /\ \A u \in UserIds : userRows[u].customRole \notin RESERVED_SYSTEM_ROLES
    /\ ucr.res = "success" => ucr.value \notin RESERVED_SYSTEM_ROLES

\* C14: in production, when JWT_SECRET or OWNER_OPEN_ID is empty or an
\* insecure default, or DATA_ENCRYPTION_KEY is set to one of those defaults,
\* startServer throws before the HTTP server is created and nothing listens.
C14_InsecureProductionNeverListens ==
    LET insecure(v) == Coalesce(v, "") \in INSECURE_DEFAULTS
    IN  (/\ spc # "notStarted"
         /\ processEnv.NODE_ENV = "production"
         /\ \/ insecure(processEnv.JWT_SECRET)
            \/ insecure(processEnv.OWNER_OPEN_ID)
            \/ processEnv.DATA_ENCRYPTION_KEY \in INSECURE_DEFAULTS \ {""})
        => ~httpServer /\ ~listening

\* C15: the output of settings.get never contains a stored SMTP password, AI
\* API key, Maps API key or storage secret key, and two settings rows that
\* differ only in the non-empty values of those secrets give the same output.
C15_SecretsNeverReturned ==
    san.fn # "none" =>
        /\ Leaves(san.outA) \cap Secrets = {}
        /\ Leaves(san.outB) \cap Secrets = {}
        /\ san.outA = san.outB

\* two rows whose four secrets all differ were answered
C15_Witness ==
    /\ san.fn = "sanitizeAppSettings"
    /\ \A c \in ConfigNames :
          /\ OptTruthy(san.rowA, c, SecretKey[c]) /\ OptTruthy(san.rowB, c, SecretKey[c])
          /\ san.rowA[c][SecretKey[c]] # san.rowB[c][SecretKey[c]]

\* number of inbound chat_messages rows of a conversation with status 'delivered'
DeliveredIn(convId) ==
    LET rows == {r \in BagToSet(chatMessages) :
                    r.conversationId = convId /\ r.direction = "inbound"
                    /\ r.status = "delivered"}
    IN  SumOf([r \in rows |-> CopiesIn(r, chatMessages)], rows)

\* C16: whenever no inbound handler and no markAsRead call is in progress, a
\* conversation's unreadCount equals the number of its inbound messages whose
\* status is 'delivered', for every interleaving of the two.
C16_UnreadEqualsDelivered ==
    (handlers = EmptyBag /\ mpc = "idle") =>
        \A c \in conversations : c.unreadCount = DeliveredIn(c.id)

\* the live sockets of a user
SocketsOf(userId) == {sk \in sockets : sk.userId = userId}

\* C17: after disconnect(userId) has returned, no session of that user is
\* started again and getStatus(userId) is 'disconnected', until
\* initializeSession is called explicitly.
C17_DisconnectStaysDisconnected ==
    \A u \in UserIds :
       afterDisconnect[u] => SocketsOf(u) = {} /\ GetStatus(u) = "disconnected"

\* C18: at any time at most one live socket exists per user.
C18_OneLiveSocketPerUser ==
    \A u \in UserIds : Cardinality(SocketsOf(u)) <= 1

\* C19: after a close with the logged-out reason no session of that user is
\* started automatically and getStatus(userId) is 'disconnected', until
\* initializeSession is called explicitly.
C19_LoggedOutStaysDisconnected ==
    \A u \in UserIds :
       afterLogout[u] => pendingInit[u] = 0 /\ GetStatus(u) = "disconnected"

\* C20: after any sequence of scheduling.create and scheduling.update calls,
\* the appointments that share a date and a time are at most maxPerSlot (6).
C20_SlotNeverOverbooked ==
    \A a \in appointments :
       Cardinality(InSlot(a.appointmentDate, a.appointmentTime)) <= MaxPerSlotDefault
====
